---------------------------- MODULE Spec2Model ----------------------------
(***************************************************************************)
(* A model of prom-query: the promql Engine (admission gate, fetch through *)
(* the remote Reader, lookback sampling, sample budget), the remote codec  *)
(* that turns backend responses into series, and the merge layer.          *)
(*                                                                         *)
(* Packages of the repository whose source is not at hand (pkg/gate, the   *)
(* merge querier and the buffered iterator of package remote, pkg/labels)  *)
(* are modelled from the design document; they are marked where defined.   *)
(***************************************************************************)
EXTENDS Integers, Sequences, FiniteSets, TLC

VARIABLES
    pc,        \* pc[q]: where query q is: "init", "created", "queue" (inside gate.Start),
               \*        "fetch" (populateSeries), "eval" (sampling), "done" (Exec left)
    params,    \* params[q]: the query's SelectParams
    ctx,       \* ctx[q]: the context passed to Exec: "live", "canceled", "deadline"
    cancel,    \* cancel[q]: the query's cancel field: "nil" or "set"
    cancelCalled, \* cancelCalled[q]: Cancel() was called on query q while its Exec ran
    gate,      \* occupied slots of the engine's gate
    resp,      \* resp[q]: what the backends answered to query q
    sets,      \* sets[q][b]: outcome of querier.Select on backend b
    series,    \* series[q]: the expanded (merged) series handed to the evaluator
    matrix,    \* matrix[q]: the query's matrix field
    currentSamples, \* currentSamples[q]: the evaluator's counter when eval ended
    result,    \* result[q]: what Exec handed to its caller
    pointPool, \* pointPool[s]: how many times the Points slice s lies in the pool
    storage,   \* storage[q]: the Points slices of the entries of matrix[q]
    puts,      \* puts[q][i]: how often Close passed storage[q][i] to putPointSlice
    iter       \* a concreteSeriesIterator: its samples, cur, and its last two calls

vars ==
    <<pc, params, ctx, cancel, cancelCalled, gate, resp, sets, series, matrix,
      currentSamples, result, pointPool, storage, puts, iter>>

-----------------------------------------------------------------------------
(* Bounds of the model *)

NumQueries == 2
MaxConcurrent == 1
MaxSamples == 2
MaxTotalPoints == 3
MaxCloses == 2

Queries == 1..NumQueries
\* The Points slices that get into a matrix, named by the query whose eval made
\* them and the entry they were made for; NilSlice stands for no slice.
Slices == Queries \X (1..MaxSamples)
NilSlice == <<0, 0>>
EvalQueries == {1}
Backends == {1, 2}
ValidLabelSets == {1, 2}
InvalidLabelSets == {0}
SampleTimes == {1000, 1300, 1301}

LookbackDelta == 300

-----------------------------------------------------------------------------
(* Generic helpers *)

Min(S) == CHOOSE x \in S : \A y \in S : x <= y

Max(S) == CHOOSE x \in S : \A y \in S : x >= y

RECURSIVE SortedSeq(_)
SortedSeq(S) == IF S = {} THEN <<>> ELSE <<Min(S)>> \o SortedSeq(S \ {Min(S)})

RECURSIVE ReversedSeq(_)
ReversedSeq(s) == IF s = <<>> THEN <<>> ELSE Append(ReversedSeq(Tail(s)), Head(s))

Range(s) == {s[i] : i \in 1..Len(s)}

\* The sequence s with its elements evaluated once (TLC keeps [i \in 1..n |-> e]
\* as a rule and applies it anew at each use).
Eager(s) == s \o <<>>

-----------------------------------------------------------------------------
(* Value model: float64 values by their bit fields, errors, labels *)

\* An ordinary number.
Num(x) == [nan |-> FALSE, quiet |-> FALSE, m |-> x]

\* 0x7ff0000000000002: exponent all ones, quiet bit clear, mantissa 2.
StaleNaN == [nan |-> TRUE, quiet |-> FALSE, m |-> 2]

\* The == of two float64: a NaN equals nothing, itself included.
FloatEq(a, b) == ~a.nan /\ ~b.nan /\ a.m = b.m

IsStaleNaNNumeric(v) == FloatEq(v, StaleNaN)

\* math.Float64bits(v) == StaleNaN
IsStaleNaN(v) == v = StaleNaN

NoErr == [type |-> "nil", env |-> ""]

Err(t, e) == [type |-> t, env |-> e]

ErrTooManySamples(env) == Err("ErrTooManySamples", env)

\* A faulty variant of contextErr: the two cases exchanged.
contextErrSwapped(err, env) ==
    IF err.type = "context.Canceled" THEN Err("ErrQueryTimeout", env)
    ELSE IF err.type = "context.DeadlineExceeded" THEN Err("ErrQueryCanceled", env)
    ELSE err

\* contextErr: a context error named after the phase; any other error unchanged.
contextErr(err, env) ==
    IF err.type = "context.Canceled" THEN Err("ErrQueryCanceled", env)
    ELSE IF err.type = "context.DeadlineExceeded" THEN Err("ErrQueryTimeout", env)
    ELSE err

\* ctx.Err() of a context in state c.
ctxErr(c) ==
    IF c = "canceled" THEN Err("context.Canceled", "")
    ELSE IF c = "deadline" THEN Err("context.DeadlineExceeded", "")
    ELSE NoErr

\* contextDone: the select on ctx.Done() with a default branch.
contextDone(c, env) == IF c # "live" THEN contextErr(ctxErr(c), env) ELSE NoErr

\* labels.Compare on the label sets of the model, which are numbered in their order.
labelsCompare(a, b) == IF a < b THEN -1 ELSE IF a > b THEN 1 ELSE 0

\* validateLabelsAndMetricName: nil for a label set whose names and values are valid.
validateLabelsAndMetricName(ls) ==
    IF ls \in ValidLabelSets THEN NoErr ELSE Err("Invalid label", "")

-----------------------------------------------------------------------------
(* The backends' answers *)

\* A stored sample is real or a stale marker; a real sample's value names the
\* backend and the timestamp it came from (the code copies values and tests
\* them for the stale marker, nothing else).
SampleValue(b, t, kind) == IF kind = "stale" THEN StaleNaN ELSE Num(10 * t + b)

Keys == Backends \X ValidLabelSets \X SampleTimes

KeySets == {K \in SUBSET Keys : Cardinality(K) <= MaxTotalPoints}

Contents == UNION {[K -> {"real", "stale"}] : K \in KeySets}

AnswerKinds == {"ok", "invalid", "status_error", "transport_error"}

\* An answer: per backend how the request ended, and the points of the backends
\* that answered with data ("invalid": the data plus one series with an invalid label).
Responses ==
    {r \in [content : Contents, kind : [Backends -> AnswerKinds]] :
        \A k \in DOMAIN r.content : r.kind[k[1]] \in {"ok", "invalid"}}

\* The answers the concurrent specification draws from: both backends hold
\* label set 1 (backend 1 with a gap at 1300) and backend 1 also label set 2.
SmallContent ==
    (<<1, 1, 1000>> :> "real") @@ (<<2, 1, 1300>> :> "real") @@ (<<1, 2, 1000>> :> "real")

SmallResponses ==
    {[content |-> SmallContent, kind |-> [b \in Backends |-> "ok"]],
     [content |-> << >>, kind |-> [b \in Backends |-> "transport_error"]]}

StoredLabels(c, b) == {k[2] : k \in {x \in DOMAIN c : x[1] = b}}

StoredTimes(c, b, l) == {k[3] : k \in {x \in DOMAIN c : x[1] = b /\ x[2] = l}}

StoredPoints(c, b, l) ==
    LET ts == SortedSeq(StoredTimes(c, b, l))
    IN  Eager([i \in 1..Len(ts) |->
                  [T |-> ts[i], V |-> SampleValue(b, ts[i], c[<<b, l, ts[i]>>])]])

\* The series of backend b's answer, in descending label order (a backend
\* promises no order), the invalid series last.
AnswerMatrix(r, b) ==
    LET ls == ReversedSeq(SortedSeq(StoredLabels(r.content, b)))
        good == Eager([i \in 1..Len(ls) |->
                        [Metric |-> ls[i], Points |-> StoredPoints(r.content, b, ls[i])]])
        bad == [Metric |-> Min(InvalidLabelSets),
                Points |-> <<[T |-> Min(SampleTimes), V |-> Num(b)]>>]
    IN  IF r.kind[b] = "invalid" THEN Append(good, bad) ELSE good

\* Client.QueryInstant: a transport error, or the decoded response; an instant
\* response holds one sample per series (the series' first point).
QueryInstant(r, b) ==
    IF r.kind[b] = "transport_error"
    THEN [err |-> Err("error sending request", ""), Status |-> "", HasData |-> FALSE,
          Result |-> <<>>]
    ELSE IF r.kind[b] = "status_error"
    THEN [err |-> NoErr, Status |-> "error", HasData |-> FALSE, Result |-> <<>>]
    ELSE LET m == AnswerMatrix(r, b)
         IN  [err |-> NoErr, Status |-> "success", HasData |-> TRUE,
              Result |-> Eager([i \in 1..Len(m) |->
                                  [Metric |-> m[i].Metric, T |-> m[i].Points[1].T,
                                   V |-> m[i].Points[1].V]])]

\* Client.QueryRange: a transport error, or the decoded response.
QueryRange(r, b) ==
    IF r.kind[b] = "transport_error"
    THEN [err |-> Err("error sending request", ""), Status |-> "", HasData |-> FALSE,
          Result |-> <<>>]
    ELSE IF r.kind[b] = "status_error"
    THEN [err |-> NoErr, Status |-> "error", HasData |-> FALSE, Result |-> <<>>]
    ELSE [err |-> NoErr, Status |-> "success", HasData |-> TRUE,
          Result |-> AnswerMatrix(r, b)]

-----------------------------------------------------------------------------
(* remote/codec.go: from a backend response to a SeriesSet *)

NilSeriesSet == [kind |-> "nil", err |-> NoErr, series |-> <<>>]

errSeriesSet(e) == [kind |-> "errSeriesSet", err |-> e, series |-> <<>>]

concreteSeriesSet(ss) == [kind |-> "concreteSeriesSet", err |-> NoErr, series |-> ss]

\* The indices of the series of a response that fail validation.
InvalidAt(v) == {i \in 1..Len(v) : validateLabelsAndMetricName(v[i].Metric) # NoErr}

\* sort.Sort(byLabel(series)), as an insertion sort on labels.Compare.
RECURSIVE InsertByLabel(_, _)
InsertByLabel(s, x) ==
    IF s = <<>> THEN <<x>>
    ELSE IF labelsCompare(x.labels, Head(s).labels) < 0 THEN <<x>> \o s
    ELSE <<Head(s)>> \o InsertByLabel(Tail(s), x)

RECURSIVE SortByLabel(_)
SortByLabel(s) ==
    IF s = <<>> THEN <<>> ELSE InsertByLabel(SortByLabel(Tail(s)), Head(s))

\* The zero prompb.Sample.
ZeroSample == [Timestamp |-> 0, Value |-> Num(0)]

FromInstantQueryResult(res) ==
    IF res.Status # "success" THEN NilSeriesSet
    ELSE IF ~res.HasData THEN NilSeriesSet
    ELSE LET v == res.Result
         IN  IF InvalidAt(v) # {}
             THEN errSeriesSet(validateLabelsAndMetricName(v[Min(InvalidAt(v))].Metric))
             ELSE concreteSeriesSet(SortByLabel(Eager(
                      [i \in 1..Len(v) |->
                          [labels |-> v[i].Metric,
                           samples |-> <<[Timestamp |-> v[i].T, Value |-> v[i].V]>>]])))

\* samples := make([]prompb.Sample, len(s.Points)) followed by one append per
\* point: len(s.Points) zero samples, then the points.
RangeSamples(pts) ==
    Eager([i \in 1..Len(pts) |-> ZeroSample])
        \o Eager([i \in 1..Len(pts) |-> [Timestamp |-> pts[i].T, Value |-> pts[i].V]])

FromRangeQueryResult(res) ==
    IF res.Status # "success" THEN NilSeriesSet
    ELSE IF ~res.HasData THEN NilSeriesSet
    ELSE LET v == res.Result
         IN  IF InvalidAt(v) # {}
             THEN errSeriesSet(validateLabelsAndMetricName(v[Min(InvalidAt(v))].Metric))
             ELSE concreteSeriesSet(SortByLabel(Eager(
                      [i \in 1..Len(v) |->
                          [labels |-> v[i].Metric, samples |-> RangeSamples(v[i].Points)]])))

\* sort.Search(n, f) with f(n) = samples[n].Timestamp >= t, on Go's indices
\* 0..n-1: the binary search between i and j.
RECURSIVE sortSearch(_, _, _, _)
sortSearch(samples, t, i, j) ==
    IF i < j
    THEN LET h == (i + j) \div 2
         IN  IF ~(samples[h + 1].Timestamp >= t) THEN sortSearch(samples, t, h + 1, j)
             ELSE sortSearch(samples, t, i, h)
    ELSE i

\* A faulty variant of concreteSeek: the search is for the first sample after t.
concreteSeekAfter(samples, t) == sortSearch(samples, t + 1, 0, Len(samples))

\* concreteSeriesIterator.Seek: the new c.cur, Go's index of the sample found
\* (len(samples) when there is none).
concreteSeek(samples, t) == sortSearch(samples, t, 0, Len(samples))

\* newConcreteSeriersIterator, with the last two calls made on the iterator.
NoCall == [op |-> "none", t |-> 0, ok |-> FALSE]

newConcreteSeriesIterator(samples) ==
    [samples |-> samples, cur |-> -1, last |-> NoCall, prev |-> NoCall]

\* concreteSeriesIterator.At
At(it) == [t |-> it.samples[it.cur + 1].Timestamp, v |-> it.samples[it.cur + 1].Value]

-----------------------------------------------------------------------------
(* remote/reader.go: the querier of one backend, and the Reader *)

\* querier.Select: an instant request for step 0, a range request otherwise.
querierSelect(r, b, p) ==
    IF p.Step = 0
    THEN LET res == QueryInstant(r, b)
         IN  IF res.err # NoErr THEN [set |-> NilSeriesSet, err |-> res.err]
             ELSE [set |-> FromInstantQueryResult(res), err |-> NoErr]
    ELSE LET res == QueryRange(r, b)
         IN  IF res.err # NoErr THEN [set |-> NilSeriesSet, err |-> res.err]
             ELSE [set |-> FromRangeQueryResult(res), err |-> NoErr]

\* What the queriers of all backends return for one query.
SelectAll(r, p) == Eager([b \in Backends |-> querierSelect(r, b, p)])

-----------------------------------------------------------------------------
(* The merge layer (from the design document, section 4.3) *)

\* A backend survives when its Select returned a series set without an error.
Survives(out) == out.err = NoErr /\ out.set.kind = "concreteSeriesSet"

HasSampleAt(s, t) == \E i \in 1..Len(s.samples) : s.samples[i].Timestamp = t

SampleAt(s, t) ==
    s.samples[Min({i \in 1..Len(s.samples) : s.samples[i].Timestamp = t})]

\* The sample of the merged series at t: the first non-stale one in the order
\* of contribs; the first (a stale marker) when every one of them is stale.
PickSample(contribs, t) ==
    LET have == {i \in 1..Len(contribs) : HasSampleAt(contribs[i], t)}
        usable == {i \in have : ~IsStaleNaN(SampleAt(contribs[i], t).Value)}
    IN  IF usable # {} THEN SampleAt(contribs[Min(usable)], t)
        ELSE SampleAt(contribs[Min(have)], t)

MergeSeries(l, contribs) ==
    LET ts == SortedSeq(UNION {{contribs[i].samples[n].Timestamp :
                                   n \in 1..Len(contribs[i].samples)} :
                               i \in 1..Len(contribs)})
    IN  IF Len(contribs) = 1 THEN contribs[1]
        ELSE [labels |-> l,
              samples |-> Eager([n \in 1..Len(ts) |-> PickSample(contribs, ts[n])])]

\* The series with label set l of the series set s (the empty sequence if none).
SeriesOf(s, l) == SelectSeq(s.series, LAMBDA x : x.labels = l)

RECURSIVE Concat(_)
Concat(ss) == IF ss = <<>> THEN <<>> ELSE Head(ss) \o Concat(Tail(ss))

\* mergeQuerier.Select over the queriers qs (backends in priority order) whose
\* Select returned outs: fails when no backend survives, and otherwise yields
\* one series per distinct label set of the survivors, sorted by label set.
MergeSelect(qs, outs) ==
    LET alive == SelectSeq(qs, LAMBDA b : Survives(outs[b]))
        ls == SortedSeq(UNION {{x.labels : x \in Range(outs[alive[i]].set.series)} :
                               i \in 1..Len(alive)})
        contribs(l) ==
            Concat(Eager([i \in 1..Len(alive) |-> SeriesOf(outs[alive[i]].set, l)]))
    IN  IF alive = <<>>
        THEN [set |-> NilSeriesSet, err |-> Err("all backends failed", "")]
        ELSE [set |-> concreteSeriesSet(Eager(
                         [n \in 1..Len(ls) |-> MergeSeries(ls[n], contribs(ls[n]))])),
              err |-> NoErr]

\* Reader.Querier: one querier per configured backend, in configured order.
ReaderQueriers == SortedSeq(Backends)

\* Faulty variants of ReaderSelect: the queriers in reverse order; the surviving
\* backends' series chained without merging; one backend's error failing the
\* whole Select.
ReaderSelectReversed(outs) == MergeSelect(ReversedSeq(ReaderQueriers), outs)

ReaderSelectChained(outs) ==
    LET alive == SelectSeq(ReaderQueriers, LAMBDA b : Survives(outs[b]))
    IN  IF alive = <<>>
        THEN [set |-> NilSeriesSet, err |-> Err("all backends failed", "")]
        ELSE [set |-> concreteSeriesSet(
                         Concat([i \in 1..Len(alive) |-> outs[alive[i]].set.series])),
              err |-> NoErr]

ReaderSelectFailFast(outs) ==
    IF \E b \in Backends : ~Survives(outs[b])
    THEN [set |-> NilSeriesSet, err |-> Err("all backends failed", "")]
    ELSE MergeSelect(ReaderQueriers, outs)

\* Reader.Querier followed by Select: the merge querier over the queriers.
ReaderSelect(outs) == MergeSelect(ReaderQueriers, outs)

-----------------------------------------------------------------------------
(* The buffered series iterator (from the design document, section 4.2) *)

\* Seek(t): the underlying iterator advanced to the first sample at or after t.
bufferSeek(samples, t) == concreteSeek(samples, t) + 1

\* PeekBack(n) after Seek(t) left the iterator at pos: the n-th sample before
\* pos, found when the buffer (the samples within delta before t) holds it.
bufferPeekBack(samples, pos, t, delta, n) ==
    IF pos - n >= 1 /\ samples[pos - n].Timestamp >= t - delta
    THEN [t |-> samples[pos - n].Timestamp, v |-> samples[pos - n].Value, ok |-> TRUE]
    ELSE [t |-> 0, v |-> Num(0), ok |-> FALSE]

-----------------------------------------------------------------------------
(* promql: the evaluator *)

NoSample == [t |-> 0, v |-> Num(0), ok |-> FALSE]

\* A faulty variant of vectorSelectorSingle's lookback test: the bound exclusive.
lookbackTooOldExclusive(t, refTime) == t <= refTime - LookbackDelta

\* t < refTime-durationSeconds(LookbackDelta)
lookbackTooOld(t, refTime) == t < refTime - LookbackDelta

\* vectorSelectorSingle on the samples of one series (the iterator reports no
\* error: concreteSeriesIterator.Err is nil).
vectorSelectorSingle(samples, ts) ==
    LET pos == bufferSeek(samples, ts)
        ok == pos <= Len(samples)
        t == IF ok THEN samples[pos].Timestamp ELSE 0
        v == IF ok THEN samples[pos].Value ELSE Num(0)
        back == bufferPeekBack(samples, pos, ts, LookbackDelta, 1)
        sel == IF ~ok \/ t > ts
               THEN IF ~back.ok \/ lookbackTooOld(back.t, ts) THEN NoSample ELSE back
               ELSE [t |-> t, v |-> v, ok |-> TRUE]
    IN  IF ~sel.ok THEN NoSample
        ELSE IF IsStaleNaN(sel.v) THEN NoSample
        ELSE sel

\* A faulty variant of the budget test: one point too many is let in.
budgetLeftOffByOne(cur, max) == cur <= max

\* ev.currentSamples < ev.maxSamples
budgetLeft(cur, max) == cur < max

\* A faulty variant of the inner loop of eval: a point keeps the timestamp of
\* the selected sample instead of the grid timestamp.
RECURSIVE evalStepsSampleTime(_, _, _, _, _)
evalStepsSampleTime(samples, ts, ev, cur, points) ==
    IF ts > ev.endTimestamp THEN [points |-> points, cur |-> cur, abort |-> NoErr]
    ELSE LET r == vectorSelectorSingle(samples, ts)
         IN  IF ~r.ok THEN evalStepsSampleTime(samples, ts + ev.interval, ev, cur, points)
             ELSE IF budgetLeft(cur, ev.maxSamples)
             THEN evalStepsSampleTime(samples, ts + ev.interval, ev, cur + 1,
                                      Append(points, [T |-> r.t, V |-> r.v]))
             ELSE [points |-> points, cur |-> cur,
                   abort |-> ErrTooManySamples("query execution")]

\* The inner loop of eval over the grid of one series, from ts on.
RECURSIVE evalSteps(_, _, _, _, _)
evalSteps(samples, ts, ev, cur, points) ==
    IF ts > ev.endTimestamp THEN [points |-> points, cur |-> cur, abort |-> NoErr]
    ELSE LET r == vectorSelectorSingle(samples, ts)
         IN  IF ~r.ok THEN evalSteps(samples, ts + ev.interval, ev, cur, points)
             ELSE IF budgetLeft(cur, ev.maxSamples)
             THEN evalSteps(samples, ts + ev.interval, ev, cur + 1,
                            Append(points, [T |-> ts, V |-> r.v]))
             ELSE [points |-> points, cur |-> cur,
                   abort |-> ErrTooManySamples("query execution")]

\* Go's integer division, which truncates toward zero.
GoDiv(a, b) ==
    LET abs(x) == IF x < 0 THEN -x ELSE x
        n == abs(a) \div abs(b)
    IN  IF (a < 0) # (b < 0) THEN -n ELSE n

\* numSteps := int((ev.endTimestamp-ev.startTimestamp)/ev.interval) + 1
numSteps(ev) == GoDiv(ev.endTimestamp - ev.startTimestamp, ev.interval) + 1

\* The grid loop `for ts := start; ts <= end; ts += interval` with a negative
\* interval leaves only when ts wraps around int64, after about 2^63/|interval|
\* rounds.
spins(ev) == ev.interval < 0 /\ ev.startTimestamp <= ev.endTimestamp

\* pointPool.Get() for the n series of one eval: for each series nil or a slice
\* lying in the pool; a sync.Pool may hand out any of its items or none.
GetPlans(pool, n) ==
    {g \in [1..n -> {NilSlice} \cup {s \in Slices : pool[s] > 0}] :
        \A s \in Slices : Cardinality({i \in 1..n : g[i] = s}) <= pool[s]}

\* The pool after the Gets of the first n series of plan g.
poolAfter(pool, g, n) ==
    [s \in Slices |-> pool[s] - Cardinality({i \in 1..n : g[i] = s})]

\* putPointSlice for each slice of st.
RECURSIVE putPointSlices(_, _)
putPointSlices(pool, st) ==
    IF st = <<>> THEN pool
    ELSE putPointSlices([pool EXCEPT ![Head(st)] = @ + 1], Tail(st))

\* The slices of the matrix of query q: those taken from the pool, and the ones
\* getPointSlice made (append stays in the slice it is given while the capacity
\* suffices, which is taken to be the case).
newSlices(st, q) ==
    [i \in 1..Len(st) |-> IF st[i] = NilSlice THEN <<q, i>> ELSE st[i]]

\* What eval has when it stops at series i without a matrix.
evalStops(i, cur, e, spin) ==
    [mat |-> <<>>, cur |-> cur, abort |-> e, store |-> <<>>, taken |-> i, spin |-> spin]

\* The outer loop of eval, from series i on: getPointSlice(numSteps) returns
\* the slice g[i] of the pool or makes one (a negative capacity panics); a
\* series with points is appended. store holds the slices of the matrix.
RECURSIVE evalFrom(_, _, _, _, _, _, _)
evalFrom(ss, i, ev, g, cur, mat, store) ==
    IF i > Len(ss)
    THEN [mat |-> mat, cur |-> cur, abort |-> NoErr, store |-> store, taken |-> Len(ss),
          spin |-> FALSE]
    ELSE IF g[i] = NilSlice /\ numSteps(ev) < 0
    THEN evalStops(i, cur, Err("runtime error", "makeslice: cap out of range"), FALSE)
    ELSE IF spins(ev) THEN evalStops(i, cur, NoErr, TRUE)
    ELSE LET r == evalSteps(ss[i].samples, ev.startTimestamp, ev, cur, <<>>)
         IN  IF r.abort # NoErr THEN evalStops(i, r.cur, r.abort, FALSE)
             ELSE IF Len(r.points) > 0
             THEN evalFrom(ss, i + 1, ev, g, r.cur,
                           Append(mat, [Metric |-> ss[i].labels, Points |-> r.points]),
                           Append(store, g[i]))
             ELSE evalFrom(ss, i + 1, ev, g, r.cur, mat, store)

\* evaluator.eval with the Gets of plan g: the matrix, or the error it panics
\* with (the division by a zero interval, a negative capacity, ev.error).
eval(ss, ev, g) ==
    IF ev.interval = 0
    THEN evalStops(0, 0, Err("runtime error", "integer divide by zero"), FALSE)
    ELSE evalFrom(ss, 1, ev, g, 0, <<>>, <<>>)

\* sort.Sort(mat), as an insertion sort on Matrix.Less.
RECURSIVE InsertByMetric(_, _)
InsertByMetric(s, x) ==
    IF s = <<>> THEN <<x>>
    ELSE IF labelsCompare(x.Metric, Head(s).Metric) < 0 THEN <<x>> \o s
    ELSE <<Head(s)>> \o InsertByMetric(Tail(s), x)

RECURSIVE SortMatrix(_)
SortMatrix(m) == IF m = <<>> THEN <<>> ELSE InsertByMetric(SortMatrix(Tail(m)), Head(m))

-----------------------------------------------------------------------------
(* The admission gate (from the design document, section 4.1): a counter of *)
(* occupied slots, at most MaxConcurrent.                                   *)

\* Start can take a slot.
gateFree(g) == g < MaxConcurrent

gateStart(g) == g + 1

gateDone(g) == g - 1

-----------------------------------------------------------------------------
(* promql: the engine *)

NoParams == [Start |-> 0, End |-> 0, Step |-> 0]

NoResult == [kind |-> "none", err |-> NoErr, type |-> "none", value |-> <<>>]

\* Exec returned &Result{Err: err}.
Failed(e) == [kind |-> "error", err |-> e, type |-> "none", value |-> <<>>]

\* Exec returned &Result{Value: v}.
Returned(t, v) == [kind |-> "value", err |-> NoErr, type |-> t, value |-> v]

\* A panic left Exec: nothing in Engine.exec or query.Exec recovers.
Panicked(e) == [kind |-> "panic", err |-> e, type |-> "none", value |-> <<>>]

\* The queries of the evaluation specification: instant queries, and range
\* queries on the grids {1000, 1300}, {1300, 1301}, {1000, 1300, 1600} and
\* {1001, 1301, 1601}.
ParamSet ==
    {[Start |-> t, End |-> t, Step |-> 0] : t \in {1000, 1300, 1301, 1600, 1601}}
    \cup {[Start |-> 1000, End |-> 1300, Step |-> 300],
          [Start |-> 1300, End |-> 1301, Step |-> 1],
          [Start |-> 1000, End |-> 1600, Step |-> 300],
          [Start |-> 1001, End |-> 1601, Step |-> 300]}

\* The queries of the concurrent specification.
SmallParams ==
    {[Start |-> 1300, End |-> 1300, Step |-> 0],
     [Start |-> 1000, End |-> 1300, Step |-> 300]}

\* What a caller can pass to NewQuery besides: a zero step with start # end, a
\* negative step, and start after end (with numSteps 0 and -1).
CallerParams ==
    SmallParams
    \cup {[Start |-> 1000, End |-> 1300, Step |-> 0],
          [Start |-> 1000, End |-> 1300, Step |-> -300],
          [Start |-> 1300, End |-> 1000, Step |-> 300],
          [Start |-> 1600, End |-> 1000, Step |-> 300]}

IsInstant(p) == p.Start = p.End /\ p.Step = 0

\* The evaluator exec builds for the query.
evaluatorOf(p) ==
    [startTimestamp |-> p.Start,
     endTimestamp |-> IF IsInstant(p) THEN p.Start ELSE p.End,
     interval |-> IF IsInstant(p) THEN 1 ELSE p.Step,
     maxSamples |-> MaxSamples]

\* The timestamps the evaluator's loop visits.
Grid(p) ==
    LET ev == evaluatorOf(p)
    IN  {ev.startTimestamp + k * ev.interval :
            k \in 0..((ev.endTimestamp - ev.startTimestamp) \div ev.interval)}

\* expandSeriesSet: the series of the set; the bare context error when the
\* context is done while a series is taken.
expandSeriesSet(c, set) ==
    IF Len(set.series) > 0 /\ c # "live" THEN [res |-> <<>>, err |-> ctxErr(c)]
    ELSE [res |-> set.series, err |-> set.err]

\* Engine.populateSeries, given what Select returned on each backend.
populateSeries(c, outs) ==
    LET sel == ReaderSelect(outs)
    IN  IF sel.err # NoErr THEN [res |-> <<>>, err |-> sel.err]
        ELSE expandSeriesSet(c, sel.set)

\* A faulty variant of Engine.exec after populateSeries: the vector is made with
\* len(mat) entries and the samples are appended to it.
execEvalAppended(ss, p, c, g) ==
    LET r == eval(ss, evaluatorOf(p), g)
        done == contextDone(c, "expression evaluation")
        out(res, m, set) ==
            [result |-> res, matrix |-> m, set |-> set, cur |-> r.cur, store |-> r.store,
             taken |-> r.taken, spin |-> r.spin]
    IN  IF r.spin THEN out(NoResult, <<>>, FALSE)
        ELSE IF r.abort # NoErr THEN out(Panicked(r.abort), <<>>, FALSE)
        ELSE IF IsInstant(p)
        THEN out(Returned("vector",
                     Eager([i \in 1..Len(r.mat) |-> [Metric |-> 0, T |-> 0, V |-> Num(0)]])
                     \o Eager([i \in 1..Len(r.mat) |->
                                 [Metric |-> r.mat[i].Metric, T |-> p.Start,
                                  V |-> r.mat[i].Points[1].V]])),
                 r.mat, TRUE)
        ELSE IF done # NoErr THEN out(Failed(done), r.mat, TRUE)
        ELSE out(Returned("matrix", SortMatrix(r.mat)), SortMatrix(r.mat), TRUE)

\* Engine.exec after populateSeries: the evaluation and what exec returns (no
\* return while the grid loop spins).
execEval(ss, p, c, g) ==
    LET r == eval(ss, evaluatorOf(p), g)
        done == contextDone(c, "expression evaluation")
        out(res, m, set) ==
            [result |-> res, matrix |-> m, set |-> set, cur |-> r.cur, store |-> r.store,
             taken |-> r.taken, spin |-> r.spin]
    IN  IF r.spin THEN out(NoResult, <<>>, FALSE)
        ELSE IF r.abort # NoErr THEN out(Panicked(r.abort), <<>>, FALSE)
        ELSE IF IsInstant(p)
        THEN out(Returned("vector",
                     Eager([i \in 1..Len(r.mat) |->
                              [Metric |-> r.mat[i].Metric, T |-> p.Start,
                               V |-> r.mat[i].Points[1].V]])),
                 r.mat, TRUE)
        ELSE IF done # NoErr THEN out(Failed(done), r.mat, TRUE)
        ELSE out(Returned("matrix", SortMatrix(r.mat)), SortMatrix(r.mat), TRUE)

\* The engine and its queries after construction.
EngineInit ==
    /\ pc = [q \in Queries |-> "init"]
    /\ params = [q \in Queries |-> NoParams]
    /\ ctx = [q \in Queries |-> "live"]
    /\ cancel = [q \in Queries |-> "nil"]
    /\ cancelCalled = [q \in Queries |-> FALSE]
    /\ gate = 0
    /\ resp = [q \in Queries |-> [content |-> <<>>, kind |-> [b \in Backends |-> "ok"]]]
    /\ sets = [q \in Queries |-> [b \in Backends |-> [set |-> NilSeriesSet, err |-> NoErr]]]
    /\ series = [q \in Queries |-> <<>>]
    /\ matrix = [q \in Queries |-> <<>>]
    /\ currentSamples = [q \in Queries |-> 0]
    /\ result = [q \in Queries |-> NoResult]
    /\ pointPool = [s \in Slices |-> 0]
    /\ storage = [q \in Queries |-> <<>>]
    /\ puts = [q \in Queries |-> <<>>]

Init == EngineInit /\ iter = newConcreteSeriesIterator(<<>>)

\* Engine.NewQuery: the query holds its parameters; its cancel field is not set.
NewQuery(q, P) ==
    /\ pc[q] = "init"
    /\ \E p \in P : params' = [params EXCEPT ![q] = p]
    /\ cancel' = [cancel EXCEPT ![q] = "nil"]
    /\ pc' = [pc EXCEPT ![q] = "created"]
    /\ UNCHANGED <<ctx, cancelCalled, gate, resp, sets, series, matrix, currentSamples,
                   result>>
    /\ UNCHANGED <<pointPool, storage, puts, iter>>

\* query.Exec is called: Engine.exec enters gate.Start.
Exec(q) ==
    /\ pc[q] = "created"
    /\ pc' = [pc EXCEPT ![q] = "queue"]
    /\ UNCHANGED <<params, ctx, cancel, cancelCalled, gate, resp, sets, series, matrix,
                   currentSamples, result>>
    /\ UNCHANGED <<pointPool, storage, puts, iter>>

\* The ways gate.Start(ctx) can return now: with a slot, or with ctx.Err().
StartWays(q) ==
    {w \in {"slot", "ctx"} : (w = "slot" /\ gateFree(gate)) \/ (w = "ctx" /\ ctx[q] # "live")}

\* A faulty variant of ExecGate: the error of gate.Start is not looked at.
ExecGateUnchecked(q) ==
    /\ pc[q] = "queue"
    /\ \E w \in StartWays(q) :
          /\ gate' = IF w = "slot" THEN gateStart(gate) ELSE gate
          /\ pc' = [pc EXCEPT ![q] = "fetch"]
    /\ UNCHANGED <<params, ctx, cancel, cancelCalled, resp, sets, series, matrix,
                   currentSamples, result>>
    /\ UNCHANGED <<pointPool, storage, puts, iter>>

\* Engine.exec: gate.Start returns; on its error exec returns contextErr of it.
ExecGate(q) ==
    /\ pc[q] = "queue"
    /\ \E w \in StartWays(q) :
          /\ gate' = IF w = "slot" THEN gateStart(gate) ELSE gate
          /\ pc' = [pc EXCEPT ![q] = IF w = "slot" THEN "fetch" ELSE "done"]
          /\ result' = [result EXCEPT ![q] =
                            IF w = "slot" THEN @
                            ELSE Failed(contextErr(ctxErr(ctx[q]), "query queue"))]
    /\ UNCHANGED <<params, ctx, cancel, cancelCalled, resp, sets, series, matrix,
                   currentSamples>>
    /\ UNCHANGED <<pointPool, storage, puts, iter>>

\* A faulty variant of PopulateSeries: gate.Done is not deferred, a fetch error
\* returns without it.
PopulateSeriesKeepsSlot(q, R) ==
    /\ pc[q] = "fetch"
    /\ \E r \in R :
          \E outs \in {SelectAll(r, params[q])} :
              \E got \in {populateSeries(ctx[q], outs)} :
                  /\ resp' = [resp EXCEPT ![q] = r]
                  /\ sets' = [sets EXCEPT ![q] = outs]
                  /\ series' = [series EXCEPT ![q] = got.res]
                  /\ pc' = [pc EXCEPT ![q] = IF got.err # NoErr THEN "done" ELSE "eval"]
                  /\ result' = [result EXCEPT ![q] =
                                    IF got.err # NoErr THEN Failed(got.err) ELSE @]
    /\ UNCHANGED <<params, ctx, cancel, cancelCalled, gate, matrix, currentSamples>>
    /\ UNCHANGED <<pointPool, storage, puts, iter>>

\* Engine.exec: populateSeries with the backends answering r; on an error exec
\* returns it, and the deferred gate.Done runs.
PopulateSeries(q, R) ==
    /\ pc[q] = "fetch"
    /\ \E r \in R :
          \E outs \in {SelectAll(r, params[q])} :
              \E got \in {populateSeries(ctx[q], outs)} :
                  /\ resp' = [resp EXCEPT ![q] = r]
                  /\ sets' = [sets EXCEPT ![q] = outs]
                  /\ series' = [series EXCEPT ![q] = got.res]
                  /\ pc' = [pc EXCEPT ![q] = IF got.err # NoErr THEN "done" ELSE "eval"]
                  /\ result' = [result EXCEPT ![q] =
                                    IF got.err # NoErr THEN Failed(got.err) ELSE @]
                  /\ gate' = IF got.err # NoErr THEN gateDone(gate) ELSE gate
    /\ UNCHANGED <<params, ctx, cancel, cancelCalled, matrix, currentSamples>>
    /\ UNCHANGED <<pointPool, storage, puts, iter>>

\* A faulty variant of Evaluate: exec returns without gate.Done.
EvaluateKeepsSlot(q) ==
    /\ pc[q] = "eval"
    /\ \E g \in GetPlans(pointPool, Len(series[q])) :
          \E e \in {execEval(series[q], params[q], ctx[q], g)} :
              \E st \in {newSlices(e.store, q)} :
                  /\ result' = [result EXCEPT ![q] = IF e.spin THEN @ ELSE e.result]
                  /\ matrix' = [matrix EXCEPT ![q] = IF e.set THEN e.matrix ELSE @]
                  /\ currentSamples' = [currentSamples EXCEPT ![q] = e.cur]
                  /\ pointPool' = poolAfter(pointPool, g, e.taken)
                  /\ storage' = [storage EXCEPT ![q] = IF e.set THEN st ELSE @]
                  /\ puts' = [puts EXCEPT ![q] =
                                  IF e.set THEN [i \in 1..Len(st) |-> 0] ELSE @]
                  /\ gate' = gate
                  /\ pc' = [pc EXCEPT ![q] = IF e.spin THEN "spin" ELSE "done"]
    /\ UNCHANGED <<params, ctx, cancel, cancelCalled, resp, sets, series, iter>>

\* Engine.exec: the evaluation, the result, and the deferred gate.Done.
Evaluate(q) ==
    /\ pc[q] = "eval"
    /\ \E g \in GetPlans(pointPool, Len(series[q])) :
          \E e \in {execEval(series[q], params[q], ctx[q], g)} :
              \E st \in {newSlices(e.store, q)} :
                  /\ result' = [result EXCEPT ![q] = IF e.spin THEN @ ELSE e.result]
                  /\ matrix' = [matrix EXCEPT ![q] = IF e.set THEN e.matrix ELSE @]
                  /\ currentSamples' = [currentSamples EXCEPT ![q] = e.cur]
                  /\ pointPool' = poolAfter(pointPool, g, e.taken)
                  /\ storage' = [storage EXCEPT ![q] = IF e.set THEN st ELSE @]
                  /\ puts' = [puts EXCEPT ![q] =
                                  IF e.set THEN [i \in 1..Len(st) |-> 0] ELSE @]
                  /\ gate' = IF e.spin THEN gate ELSE gateDone(gate)
                  /\ pc' = [pc EXCEPT ![q] = IF e.spin THEN "spin" ELSE "done"]
    /\ UNCHANGED <<params, ctx, cancel, cancelCalled, resp, sets, series, iter>>

\* query.Cancel: calls the cancel field when it is set.
Cancel(q) ==
    /\ pc[q] \in {"queue", "fetch", "eval"}
    /\ ~cancelCalled[q]
    /\ cancelCalled' = [cancelCalled EXCEPT ![q] = TRUE]
    /\ ctx' = [ctx EXCEPT ![q] = IF cancel[q] # "nil" /\ @ = "live" THEN "canceled" ELSE @]
    /\ UNCHANGED <<pc, params, cancel, gate, resp, sets, series, matrix, currentSamples,
                   result>>
    /\ UNCHANGED <<pointPool, storage, puts, iter>>

\* The caller cancels the context it passed to Exec (a context canceled before
\* Exec is one canceled as Exec enters gate.Start).
CtxCancel(q) ==
    /\ pc[q] \in {"queue", "fetch", "eval"}
    /\ ctx[q] = "live"
    /\ ctx' = [ctx EXCEPT ![q] = "canceled"]
    /\ UNCHANGED <<pc, params, cancel, cancelCalled, gate, resp, sets, series, matrix,
                   currentSamples, result>>
    /\ UNCHANGED <<pointPool, storage, puts, iter>>

\* The deadline of the context passed to Exec passes.
CtxDeadline(q) ==
    /\ pc[q] \in {"queue", "fetch", "eval"}
    /\ ctx[q] = "live"
    /\ ctx' = [ctx EXCEPT ![q] = "deadline"]
    /\ UNCHANGED <<pc, params, cancel, cancelCalled, gate, resp, sets, series, matrix,
                   currentSamples, result>>
    /\ UNCHANGED <<pointPool, storage, puts, iter>>

\* query.Close: each Points slice of the query's matrix goes to the pool.
Close(q) ==
    /\ pc[q] = "done"
    /\ \A i \in 1..Len(puts[q]) : puts[q][i] < MaxCloses
    /\ pointPool' = putPointSlices(pointPool, storage[q])
    /\ puts' = [puts EXCEPT ![q] = [i \in 1..Len(@) |-> @[i] + 1]]
    /\ UNCHANGED <<pc, params, ctx, cancel, cancelCalled, gate, resp, sets, series, matrix,
                   currentSamples, result, storage, iter>>

\* The targets of the Seek calls.
SeekTargets == {0, 999, 1000, 1001, 1300, 1301, 1302}

\* concreteSeriesIterator.Seek
Seek(t) ==
    /\ \E cur \in {concreteSeek(iter.samples, t)} :
          iter' = [iter EXCEPT !.cur = cur, !.prev = iter.last,
                               !.last = [op |-> "Seek", t |-> t,
                                         ok |-> cur < Len(iter.samples)]]
    /\ UNCHANGED <<pc, params, ctx, cancel, cancelCalled, gate, resp, sets, series, matrix,
                   currentSamples, result, pointPool, storage, puts>>

\* concreteSeriesIterator.Next (not called again once it returned false).
IterNext ==
    /\ iter.cur < Len(iter.samples)
    /\ iter' = [iter EXCEPT !.cur = @ + 1, !.prev = iter.last,
                            !.last = [op |-> "Next", t |-> 0,
                                      ok |-> iter.cur + 1 < Len(iter.samples)]]
    /\ UNCHANGED <<pc, params, ctx, cancel, cancelCalled, gate, resp, sets, series, matrix,
                   currentSamples, result, pointPool, storage, puts>>

\* Concurrent queries on the engine, over a small choice of queries and answers.
Next ==
    \E q \in Queries :
        \/ NewQuery(q, SmallParams)
        \/ Exec(q)
        \/ ExecGate(q)
        \/ PopulateSeries(q, SmallResponses)
        \/ Evaluate(q)
        \/ Cancel(q)
        \/ CtxCancel(q)
        \/ CtxDeadline(q)

Spec == Init /\ [][Next]_vars

\* The steps by which the goroutine of query q returns from populateSeries and
\* from its sampling, seen from its position only: PopulateSeries(q, R) is
\* enabled exactly when q is fetching and Evaluate(q) exactly when q is
\* sampling, and they are the only actions that move q onwards.
FetchReturns(q) ==
    /\ pc[q] = "fetch"
    /\ \E p \in {"eval", "done"} : pc' = [pc EXCEPT ![q] = p]

EvalReturns(q) ==
    /\ pc[q] = "eval"
    /\ pc' = [pc EXCEPT ![q] = "done"]

\* The concurrent queries under fair scheduling: a goroutine that can return
\* from gate.Start, finish its fetch or finish its sampling eventually does.
\* Cancel is left out, it has no effect on a query (its cancel field is nil).
FairNext ==
    \E q \in Queries :
        \/ NewQuery(q, SmallParams)
        \/ Exec(q)
        \/ ExecGate(q)
        \/ PopulateSeries(q, SmallResponses)
        \/ Evaluate(q)
        \/ CtxCancel(q)
        \/ CtxDeadline(q)

FairSpec ==
    /\ Init /\ [][FairNext]_vars
    /\ \A q \in Queries :
          /\ WF_vars(ExecGate(q))
          /\ WF_pc(FetchReturns(q))
          /\ WF_pc(EvalReturns(q))

\* One query with a live context, over every query and answer of the model.
EvalNext ==
    \E q \in EvalQueries :
        \/ NewQuery(q, ParamSet)
        \/ Exec(q)
        \/ ExecGate(q)
        \/ PopulateSeries(q, Responses)
        \/ Evaluate(q)

EvalSpec == Init /\ [][EvalNext]_vars

\* The callers of the engine with every kind of parameters, closing their
\* queries any number of times after Exec, on one goroutine each.
CallerNext ==
    \E q \in Queries :
        \/ NewQuery(q, CallerParams)
        \/ Exec(q)
        \/ ExecGate(q)
        \/ PopulateSeries(q, SmallResponses)
        \/ Evaluate(q)
        \/ Close(q)

CallerSpec == Init /\ [][CallerNext]_vars

\* The sample sequences the codec builds from ascending points: one sample of an
\* instant response, and the samples of a range response.
IterSamples ==
    {<<[Timestamp |-> ts, Value |-> Num(1)]>> : ts \in SampleTimes}
    \cup {RangeSamples(Eager([i \in 1..Len(SortedSeq(T)) |->
                                [T |-> SortedSeq(T)[i], V |-> Num(1)]])) :
              T \in SUBSET SampleTimes}

\* An iterator over one of these series, fresh from Series.Iterator().
IterInit == EngineInit /\ \E s \in IterSamples : iter = newConcreteSeriesIterator(s)

\* Any sequence of Seek and Next calls on the iterator.
IterNextStep == (\E t \in SeekTargets : Seek(t)) \/ IterNext

IterSpec == IterInit /\ [][IterNextStep]_vars

-----------------------------------------------------------------------------
(* What the properties below speak of *)

\* Query q is in the fetch/merge/sampling phase: past gate.Start, before gate.Done.
InPhase(q) == pc[q] \in {"fetch", "eval"}

\* populateSeries of query q returned its series without an error.
Fetched(q) ==
    \/ pc[q] = "eval"
    \/ /\ pc[q] = "done"
       /\ \/ result[q].kind \in {"value", "panic"}
          \/ result[q].err.env = "expression evaluation"

\* populateSeries of query q has run.
FetchTried(q) == pc[q] \in {"eval", "done"} /\ result[q].err.env # "query queue"

\* The evaluation of query q has run.
Evaluated(q) == pc[q] = "done" /\ Fetched(q)

\* Backend b answered query q with data that passes validation.
Answered(q, b) == resp[q].kind[b] = "ok"

\* The label sets backend b reported to query q.
ReportedLabels(q, b) == StoredLabels(resp[q].content, b)

\* The series backend b contributes to query q for label set l.
BackendSeries(q, b, l) ==
    LET ss == sets[q][b].set.series
    IN  ss[CHOOSE i \in 1..Len(ss) : ss[i].labels = l]

\* The last sample of a series at or before T ("none" if there is none).
LatestAtOrBefore(samples, T) ==
    LET I == {i \in 1..Len(samples) : samples[i].Timestamp <= T}
    IN  IF I = {} THEN [none |-> TRUE, Timestamp |-> 0, Value |-> Num(0)]
        ELSE [none |-> FALSE, Timestamp |-> samples[Max(I)].Timestamp,
              Value |-> samples[Max(I)].Value]

\* The sampling rule as the design states it: the latest sample at or before
\* T, if it is no older than the lookback window and no stale marker.
Usable(samples, T) ==
    LET c == LatestAtOrBefore(samples, T)
    IN  ~c.none /\ c.Timestamp >= T - LookbackDelta /\ c.Value # StaleNaN

\* The (series, grid timestamp) pairs of query q at which the rule yields a sample.
Eligible(q) ==
    {x \in (1..Len(series[q])) \X Grid(params[q]) : Usable(series[q][x[1]].samples, x[2])}

\* The values of all points of a result.
ResultValues(r) ==
    IF r.type = "vector" THEN {r.value[i].V : i \in 1..Len(r.value)}
    ELSE IF r.type = "matrix"
    THEN UNION {{r.value[i].Points[j].V : j \in 1..Len(r.value[i].Points)} :
                   i \in 1..Len(r.value)}
    ELSE {}

\* The number of points of a result.
RECURSIVE SumLen(_)
SumLen(m) == IF m = <<>> THEN 0 ELSE Len(Head(m).Points) + SumLen(Tail(m))

-----------------------------------------------------------------------------
(* Properties *)

\* C1: the queries that returned from gate.Start and have not run gate.Done
\* (fetching, merging or sampling) are never more than MaxConcurrent.
C1_GateBound == Cardinality({q \in Queries : InPhase(q)}) <= MaxConcurrent

\* C1, its case: every slot is held and another query with a live context waits
\* in gate.Start.
C1_Witness ==
    /\ gate = MaxConcurrent
    /\ Cardinality({q \in Queries : InPhase(q)}) = MaxConcurrent
    /\ \E q \in Queries : pc[q] = "queue" /\ ctx[q] = "live"

\* C2: the evaluator's counter is shared by all series and grid steps: the
\* evaluation aborts with ErrTooManySamples exactly when more than MaxSamples
\* points are eligible, after recording MaxSamples of them; otherwise every
\* eligible point is recorded; a query with more eligible points than
\* MaxSamples returns no value.
C2_SampleBudget ==
    \A q \in Queries :
        Evaluated(q) =>
            LET E == Cardinality(Eligible(q))
                aborted == result[q].kind = "panic"
                           /\ result[q].err = ErrTooManySamples("query execution")
            IN  /\ aborted <=> E > MaxSamples
                /\ result[q].err.type = "ErrTooManySamples" => aborted
                /\ E > MaxSamples => currentSamples[q] = MaxSamples /\ result[q].kind # "value"
                /\ E <= MaxSamples => currentSamples[q] = E /\ SumLen(matrix[q]) = E

\* C2, its case: an evaluation aborted at the point after the MaxSamples-th,
\* the eligible points being spread over more than one series.
C2_Witness ==
    \E q \in Queries :
        /\ Evaluated(q)
        /\ result[q].kind = "panic"
        /\ Cardinality(Eligible(q)) = MaxSamples + 1
        /\ Cardinality({x[1] : x \in Eligible(q)}) > 1

\* C3: an abort raised while sampling reaches the caller of Exec as the Err of
\* the Result, never as a panic leaving Exec.
C3_AbortIsReturned == \A q \in Queries : result[q].kind # "panic"

\* C4: no two entries of a returned Vector or Matrix have the same label set.
C4_NoDuplicateLabelSets ==
    \A q \in Queries :
        result[q].kind = "value" =>
            \A i, j \in 1..Len(result[q].value) :
                i # j => result[q].value[i].Metric # result[q].value[j].Metric

\* C4, its case: two backends reported the same label set and the query
\* returned an entry for it.
C4_Witness ==
    \E q \in Queries :
        /\ result[q].kind = "value"
        /\ \A b \in Backends : Answered(q, b)
        /\ \E l \in ValidLabelSets :
              /\ \A b \in Backends : l \in ReportedLabels(q, b)
              /\ \E i \in 1..Len(result[q].value) : result[q].value[i].Metric = l

\* C5: for a label set reported by two or more backends, the merged series
\* holds at every timestamp where some backend has a non-stale sample the
\* sample of the earliest-configured such backend.
C5_MergePriority ==
    \A q \in Queries :
        Fetched(q) =>
            \A l \in ValidLabelSets :
                LET from == {b \in Backends : Answered(q, b) /\ l \in ReportedLabels(q, b)}
                    good(t) == {b \in from :
                                   \E n \in 1..Len(BackendSeries(q, b, l).samples) :
                                       /\ BackendSeries(q, b, l).samples[n].Timestamp = t
                                       /\ BackendSeries(q, b, l).samples[n].Value # StaleNaN}
                    ts == UNION {{BackendSeries(q, b, l).samples[n].Timestamp :
                                     n \in 1..Len(BackendSeries(q, b, l).samples)} : b \in from}
                IN  Cardinality(from) >= 2 =>
                        /\ Cardinality({i \in 1..Len(series[q]) : series[q][i].labels = l}) = 1
                        /\ \A i \in 1..Len(series[q]) :
                              series[q][i].labels = l =>
                                  \A t \in ts :
                                      good(t) # {} =>
                                          \E n \in 1..Len(series[q][i].samples) :
                                              /\ series[q][i].samples[n].Timestamp = t
                                              /\ series[q][i].samples[n] =
                                                     SampleAt(BackendSeries(q, Min(good(t)), l), t)
                                              /\ \A k \in 1..Len(series[q][i].samples) :
                                                     series[q][i].samples[k].Timestamp = t
                                                         => k = n

\* C5, its case: the first backend has the series with a gap at t, the second
\* has a real value at t, and the merged series holds the second's value at t.
C5_Witness ==
    \E q \in Queries :
        /\ Fetched(q)
        /\ \A b \in Backends : Answered(q, b)
        /\ \E l \in ValidLabelSets, t \in SampleTimes, i \in 1..Len(series[q]) :
              /\ \A b \in Backends : l \in ReportedLabels(q, b)
              /\ ~HasSampleAt(BackendSeries(q, Min(Backends), l), t)
              /\ HasSampleAt(BackendSeries(q, Max(Backends), l), t)
              /\ SampleAt(BackendSeries(q, Max(Backends), l), t).Value # StaleNaN
              /\ series[q][i].labels = l
              /\ HasSampleAt(series[q][i], t)
              /\ SampleAt(series[q][i], t) = SampleAt(BackendSeries(q, Max(Backends), l), t)

\* C6: when at least one backend answered with valid data the fetch succeeds
\* with the series of those backends; it fails only when every backend failed.
C6_PartialFailure ==
    \A q \in Queries :
        FetchTried(q) =>
            LET alive == {b \in Backends : Answered(q, b)}
            IN  /\ alive # {} =>
                      /\ Fetched(q)
                      /\ {series[q][i].labels : i \in 1..Len(series[q])}
                             = UNION {ReportedLabels(q, b) : b \in alive}
                /\ alive = {} => result[q].kind = "error"

\* C6, its case: one backend failed in transport, the other answered, and the
\* query returned the other's series.
C6_Witness ==
    \E q \in Queries :
        /\ result[q].kind = "value"
        /\ Len(result[q].value) > 0
        /\ \E b \in Backends : resp[q].kind[b] = "transport_error"
        /\ \E b \in Backends : Answered(q, b)

\* C7: an invalid series of a backend response is discarded alone: the valid
\* series of the same response are in the SeriesSet built from it, which
\* reports no error.
C7_PerSeriesDiscard ==
    \A q \in Queries :
        FetchTried(q) =>
            \A b \in Backends :
                resp[q].kind[b] \in {"ok", "invalid"} =>
                    /\ sets[q][b].set.err = NoErr
                    /\ ReportedLabels(q, b)
                           \subseteq {x.labels : x \in Range(sets[q][b].set.series)}

\* C8: the rule selects the latest sample at or before T and, that sample
\* being no stale marker (C9), returns it iff its timestamp is at least
\* T - LookbackDelta, the bound included; a returned value has an entry for
\* exactly the series from which a grid timestamp selects a sample.
C8_LookbackBoundary ==
    \A q \in Queries :
        Fetched(q) =>
            /\ \A i \in 1..Len(series[q]), T \in Grid(params[q]) :
                  LET c == LatestAtOrBefore(series[q][i].samples, T)
                      r == vectorSelectorSingle(series[q][i].samples, T)
                  IN  /\ c.none => ~r.ok
                      /\ (~c.none /\ c.Value # StaleNaN) =>
                            (r.ok <=> c.Timestamp >= T - LookbackDelta)
                      /\ r.ok => r.t = c.Timestamp /\ r.v = c.Value
            /\ result[q].kind = "value" =>
                  {result[q].value[i].Metric : i \in 1..Len(result[q].value)}
                      = {series[q][x[1]].labels : x \in Eligible(q)}

\* C8, its case: a series whose latest sample is at 1000, sampled at 1300 and
\* at 1301, yields the one point at 1300.
C8_Witness ==
    \E q \in Queries :
        /\ params[q] = [Start |-> 1300, End |-> 1301, Step |-> 1]
        /\ result[q].kind = "value"
        /\ Len(series[q]) = 1
        /\ LatestAtOrBefore(series[q][1].samples, 1301).Timestamp = 1000
        /\ Len(result[q].value) = 1
        /\ Len(result[q].value[1].Points) = 1
        /\ result[q].value[1].Points[1].T = 1300

\* C9: no point of a result or of a query's matrix carries the stale marker,
\* and a series whose latest sample at or before T is a stale marker yields no
\* sample at T (no older sample is taken instead).
C9_StaleNeverSurfaces ==
    \A q \in Queries :
        /\ StaleNaN \notin ResultValues(result[q])
        /\ \A i \in 1..Len(matrix[q]) :
              \A j \in 1..Len(matrix[q][i].Points) : matrix[q][i].Points[j].V # StaleNaN
        /\ Fetched(q) =>
              \A i \in 1..Len(series[q]), T \in Grid(params[q]) :
                  LatestAtOrBefore(series[q][i].samples, T).Value = StaleNaN
                      => ~vectorSelectorSingle(series[q][i].samples, T).ok
        /\ result[q].kind = "value" =>
              \A i \in 1..Len(series[q]) :
                  (\A T \in Grid(params[q]) :
                      LatestAtOrBefore(series[q][i].samples, T).Value = StaleNaN)
                      => \A k \in 1..Len(result[q].value) :
                             result[q].value[k].Metric # series[q][i].labels

\* C9, its case: an instant query at 1000 over a series holding only
\* (1000, stale marker) returned a Vector without an entry.
C9_Witness ==
    \E q \in Queries :
        /\ params[q] = [Start |-> 1000, End |-> 1000, Step |-> 0]
        /\ Len(series[q]) = 1
        /\ series[q][1].samples = <<[Timestamp |-> 1000, Value |-> StaleNaN]>>
        /\ result[q] = Returned("vector", <<>>)

\* C10: once Cancel() was called on a query whose Exec was in progress, Exec
\* returns no success value (it aborts with a canceled error).
C10_CancelAborts ==
    \A q \in Queries :
        (cancelCalled[q] /\ pc[q] = "done") => result[q].kind # "value"

\* The error that names phase env for a context in state c.
PhaseErr(c, env) ==
    Err(IF c = "deadline" THEN "ErrQueryTimeout" ELSE "ErrQueryCanceled", env)

\* C11: Exec never returns a bare context error, and a query whose context
\* ended during sampling (its fetch returned series, so the context was live
\* until then) returns ErrQueryTimeout or ErrQueryCanceled naming the
\* evaluation phase, not a value.
C11_ContextEndNamesPhase ==
    \A q \in Queries :
        /\ result[q].err.type \notin {"context.Canceled", "context.DeadlineExceeded"}
        /\ (pc[q] = "done" /\ ctx[q] # "live" /\ Len(series[q]) > 0
                /\ result[q].kind # "panic")
               => result[q] = Failed(PhaseErr(ctx[q], "expression evaluation"))

\* C12: a query leaves gate.Start either admitted, taking one free slot, or,
\* its context having ended, with ErrQueryTimeout("query queue") (deadline) or
\* ErrQueryCanceled("query queue") (cancellation); in that case no backend was
\* queried and the gate's slots are untouched (no slot taken, no Done).
C12_QueueAbort ==
    /\ [](\A q \in Queries :
              result[q].err.env = "query queue" =>
                  /\ pc[q] = "done"
                  /\ series[q] = <<>>
                  /\ \A b \in Backends : sets[q][b] = [set |-> NilSeriesSet, err |-> NoErr])
    /\ [][\A q \in Queries :
              (pc[q] = "queue" /\ pc'[q] # "queue") =>
                  IF pc'[q] = "done"
                  THEN /\ ctx[q] # "live"
                       /\ result'[q] = Failed(PhaseErr(ctx[q], "query queue"))
                       /\ gate' = gate
                       /\ sets'[q] = sets[q]
                       /\ resp'[q] = resp[q]
                  ELSE /\ pc'[q] = "fetch"
                       /\ gate < MaxConcurrent
                       /\ gate' = gate + 1]_vars

\* C12, its case: the deadline passed for a query waiting in gate.Start while
\* another query held every slot; it left Exec with the queue timeout.
C12_Witness ==
    \E q \in Queries :
        /\ pc[q] = "done"
        /\ result[q] = Failed(Err("ErrQueryTimeout", "query queue"))
        /\ gate = MaxConcurrent
        /\ \E o \in Queries \ {q} : InPhase(o)

\* C13: under fair scheduling every query inside Exec eventually leaves it, and
\* a query waiting in gate.Start with a live context while a slot is free does
\* not stay so: it leaves Start or the free slots are taken by waiting queries.
C13_NoDeadlock ==
    \A q \in Queries :
        /\ (pc[q] = "queue") ~> (pc[q] = "done")
        /\ (pc[q] = "queue" /\ ctx[q] = "live" /\ gate < MaxConcurrent)
               ~> (pc[q] # "queue" \/ gate = MaxConcurrent)

\* C13, its case: a query returned its value and released its slot while
\* another query with a live context waits in gate.Start.
C13_Witness ==
    \E q \in Queries :
        /\ pc[q] = "done"
        /\ result[q].kind = "value"
        /\ gate = 0
        /\ \E o \in Queries \ {q} : pc[o] = "queue" /\ ctx[o] = "live"

\* C18: the occupied slots of the gate are exactly the queries between a
\* successful gate.Start and their leaving exec: Done ran once for each query
\* that left, on every way out, and never for a query whose Start failed; once
\* no query is inside exec every slot is free.
C18_DoneOncePerStart ==
    /\ gate = Cardinality({q \in Queries : InPhase(q)})
    /\ (\A q \in Queries : pc[q] \notin {"queue", "fetch", "eval"}) => gate = 0

\* C18, its case: every query left exec, one by an evaluator abort and one by
\* a fetch error, and no slot is occupied.
C18_Witness ==
    /\ \A q \in Queries : pc[q] = "done"
    /\ \E q \in Queries : result[q].kind = "panic"
    /\ \E q \in Queries : result[q] = Failed(Err("all backends failed", ""))
    /\ gate = 0


\* The points of a response's series as the samples a series should hold.
PointsAsSamples(pts) ==
    [i \in 1..Len(pts) |-> [Timestamp |-> pts[i].T, Value |-> pts[i].V]]

\* C19: for each series of a backend's range response, the series built by
\* FromRangeQueryResult holds exactly the response's points, in the same
\* order, with the same timestamps and values, and no additional samples.
C19_ExactPoints ==
    \A q \in Queries :
        (FetchTried(q) /\ params[q].Step # 0) =>
            \A b \in Backends :
                Answered(q, b) =>
                    \A l \in ReportedLabels(q, b) :
                        BackendSeries(q, b, l).samples =
                            PointsAsSamples(StoredPoints(resp[q].content, b, l))

\* The reference points of one series on the grid of p: for each grid timestamp
\* at which the sampling rule yields a sample, that timestamp with the value of
\* the latest sample at or before it, in increasing order of timestamp.
RefPoints(samples, p) ==
    LET gs == SortedSeq({g \in Grid(p) : Usable(samples, g)})
    IN  [i \in 1..Len(gs) |-> [T |-> gs[i], V |-> LatestAtOrBefore(samples, gs[i]).Value]]

\* The reference matrix of the series ss: the series with at least one
\* reference point, ordered by label set.
RefMatrix(ss, p) ==
    LET keep == {i \in 1..Len(ss) : RefPoints(ss[i].samples, p) # <<>>}
        ls == SortedSeq({ss[i].labels : i \in keep})
    IN  [k \in 1..Len(ls) |->
            LET i == CHOOSE j \in keep : ss[j].labels = ls[k]
            IN  [Metric |-> ls[k], Points |-> RefPoints(ss[i].samples, p)]]

\* C15: a range query with start <= end and step >= 1 that returns a value
\* returns the reference matrix: per input series the points (g, value the
\* sampling rule selects at g) for the grid timestamps g where the rule yields
\* a sample, timestamps strictly increasing, series without points omitted,
\* entries sorted by label set.
C15_RangeReference ==
    \A q \in Queries :
        (Evaluated(q) /\ params[q].Step >= 1 /\ params[q].Start <= params[q].End
            /\ result[q].kind = "value") =>
            /\ result[q].type = "matrix"
            /\ result[q].value = RefMatrix(series[q], params[q])
            /\ \A i \in 1..Len(result[q].value) :
                  \A j \in 1..(Len(result[q].value[i].Points) - 1) :
                      result[q].value[i].Points[j].T < result[q].value[i].Points[j + 1].T

\* A range query over two series returned a matrix that omits one of them and
\* holds a point at a grid timestamp later than the sample it selected.
C15_Witness ==
    \E q \in Queries :
        /\ Evaluated(q) /\ params[q].Step >= 1 /\ result[q].kind = "value"
        /\ Len(series[q]) = 2 /\ Len(result[q].value) = 1
        /\ \E j \in 1..Len(result[q].value[1].Points) :
              LatestAtOrBefore(series[q][CHOOSE i \in 1..2 :
                                   series[q][i].labels = result[q].value[1].Metric].samples,
                               result[q].value[1].Points[j].T).Timestamp
                  < result[q].value[1].Points[j].T

\* The reference vector of the series ss at ts: in the order of the series, one
\* sample for each series where the sampling rule yields a sample, stamped ts.
RECURSIVE RefVector(_, _)
RefVector(ss, ts) ==
    IF ss = <<>> THEN <<>>
    ELSE (IF Usable(Head(ss).samples, ts)
          THEN <<[Metric |-> Head(ss).labels, T |-> ts,
                  V |-> LatestAtOrBefore(Head(ss).samples, ts).Value]>>
          ELSE <<>>) \o RefVector(Tail(ss), ts)

\* C16: an instant query at ts that returns a value returns a vector with
\* exactly one sample for each merged series where the sampling rule yields a
\* sample at ts and none for the others; each sample is stamped ts and carries
\* the value of the selected sample.
C16_InstantReference ==
    \A q \in Queries :
        (Evaluated(q) /\ IsInstant(params[q]) /\ result[q].kind = "value") =>
            /\ result[q].type = "vector"
            /\ result[q].value = RefVector(series[q], params[q].Start)

\* An instant query over two series returned one sample, selected from a sample
\* earlier than the evaluation timestamp.
C16_Witness ==
    \E q \in Queries :
        /\ Evaluated(q) /\ IsInstant(params[q]) /\ result[q].kind = "value"
        /\ Len(series[q]) = 2 /\ Len(result[q].value) = 1
        /\ LatestAtOrBefore(series[q][CHOOSE i \in 1..2 :
                                 series[q][i].labels = result[q].value[1].Metric].samples,
                             params[q].Start).Timestamp < params[q].Start

\* The positions (counted from 1) of the samples of the iterator at or after t.
AtOrAfter(t) == {n \in 1..Len(iter.samples) : iter.samples[n].Timestamp >= t}

\* C17: after any sequence of Seek and Next calls, a Seek(t) returns true
\* exactly when the series has a sample with timestamp >= t, and then stands on
\* the first such sample, which At() returns; also when t is lower than an
\* earlier target.
C17_SeekFirstAtOrAfter ==
    iter.last.op = "Seek" =>
        /\ iter.last.ok <=> AtOrAfter(iter.last.t) # {}
        /\ AtOrAfter(iter.last.t) # {} =>
              /\ iter.cur + 1 = Min(AtOrAfter(iter.last.t))
              /\ At(iter) = [t |-> iter.samples[Min(AtOrAfter(iter.last.t))].Timestamp,
                             v |-> iter.samples[Min(AtOrAfter(iter.last.t))].Value]
              /\ \A n \in 1..iter.cur : iter.samples[n].Timestamp < iter.last.t

\* A Seek to a lower target than the Seek before it found a sample that is
\* neither the first nor the last of the series.
C17_Witness ==
    /\ iter.last.op = "Seek" /\ iter.last.ok
    /\ iter.prev.op = "Seek" /\ iter.prev.t > iter.last.t
    /\ iter.cur > 0 /\ iter.cur + 1 < Len(iter.samples)

\* C14: whatever the sequence of Exec and Close calls on a query, no Points
\* slice of its matrix is passed to putPointSlice more than once.
C14_PutAtMostOnce ==
    \A q \in Queries : \A i \in 1..Len(puts[q]) : puts[q][i] <= 1

\* C20: whatever parameters NewQuery was given, Engine.exec returns: the grid
\* loop does not spin, and nothing panics on account of the parameters (the
\* one panic is the abort on the sample budget, C3).
C20_ExecReturns ==
    \A q \in Queries :
        /\ pc[q] # "spin"
        /\ result[q].kind = "panic" => result[q].err.type = "ErrTooManySamples"

=============================================================================
